---- MODULE Spec2Model ----
(***************************************************************************)
(* Driver application of the college bus tracking service.                 *)
(*                                                                         *)
(* The model covers the trip state machine of MainRoutePage (its latest    *)
(* version: start, mark-reached, auto-reset, restore on mount), the writes *)
(* it issues to the Realtime Database ("Broadcast Store") and to Firestore *)
(* ("Durable Store"), and the two stores themselves.  Every write is       *)
(* un-awaited in the page, so a write sits in a queue from the moment it   *)
(* is issued until the store applies it or it fails.  Each store settles   *)
(* the requests of this client in the order they were issued; the two      *)
(* stores are independent of each other.                                   *)
(***************************************************************************)
EXTENDS Integers, Sequences, FiniteSets, TLC

(* ------------------------------ bounds --------------------------------- *)
NumStops == 2          \* stops on the driver's route
MaxTrips == 2          \* trip ids handed out by startTrip
MaxReloads == 1        \* page reloads (a new mount of MainRoutePage)
MaxInFlight == 3       \* requests issued to one store and not yet settled
MaxFailures == 1       \* store requests that fail
MaxCount == 2          \* history counters stop counting here
MaxInvocations == 2    \* function invocations triggered and not yet finished
MaxPublishes == 2      \* location publishes issued and not yet settled
MaxConsecutive == 4    \* consecutiveErrorsRef stops counting here
MaxLifetimes == 2      \* instances of LocationTrackingService created
MaxRouteInfos == 2     \* different route infos carried by start intents

(* --------------------------- program constants ------------------------- *)
ResetDelayMs == 8000   \* delay of the auto-reset timer

NoTrip == 0            \* activeTripId === null
NoStop == 0            \* "no stop": findIndex() === -1, currentStop null

StopIds == 1..NumStops
TripIds == 1..MaxTrips

VARIABLES
    stops,          \* useState<Stop[]>: sequence of [id, order, status]
    routeState,     \* useState<RouteState>
    activeTripId,   \* useState<string | null>
    message,        \* useState message (its kind), "none" for null
    restorePc,      \* "pending" while getActiveTrip is awaited, else "done"
    startCalls,     \* handleStartRoute invocations suspended at their await:
                    \*   the stops each one closed over
    rtQ,            \* requests issued to the Realtime Database, oldest first
    fsQ,            \* requests issued to Firestore, oldest first
    nextTripId,     \* next document id addDoc generates
    trips,          \* Firestore buses/{bus}/trips: id -> document or NoDoc
    rtdb,           \* Realtime Database subtree buses/{bus}
    reloads,        \* number of page reloads so far
    failures,       \* number of store requests that have failed so far
    \* history of the logical trip now running (from the start that leaves
    \* not_started until the auto-reset)
    reachedWrites,  \* per stop: 'reached' writes issued to buses/{bus}/stops,
                    \*   counted up to MaxCount
    marks,          \* markReached calls since the last start, -1 if the
                    \*   sequence was interrupted by a restore, reset or reload
    staleMark,      \* handleMarkReached has taken its early return
    \* the Cloud Functions of the project
    functionsOn,    \* the functions are deployed
    fnQ,            \* function invocations triggered and not yet finished
    tripNo,         \* history: number of the logical trip now running
    startBatches,   \* history: "route started" batches sent for trip tripNo
    stopBatches,    \* history: per stop, "stop reached" batches sent for
                    \*   trip tripNo
    \* useLocationTracking (the version with foreground service and wake lock)
    mounted,        \* the component using the hook is mounted
    shouldTrack,    \* isActive && routeState === 'in_progress' at the last
                    \*   run of the tracking effect
    isNative,       \* Capacitor.isNativePlatform()
    isStartingRef,  \* useRef(false)
    isStoppingRef,  \* useRef(false)
    isTrackingRef,  \* useRef(false)
    startPc,        \* the await the running startTracking is suspended at
    stopPc,         \* the await the running stopTracking is suspended at
    watchIdRef,     \* watchIdRef.current !== null
    watching,       \* the platform still delivers positions to the callbacks
    intervalIdRef,  \* intervalIdRef.current !== null: the publish interval
    service,        \* the Android foreground service is running
    wakeLock,       \* the wake lock is held
    isTracking,     \* useState(false)
    error,          \* useState<string | null>: which message, "none" for null
    lastErrorRef,   \* useRef<string | null>: which message, "none" for null
    consecutiveErrorsRef,   \* useRef<number>(0)
    lastLocationRef,        \* lastLocationRef.current: "none" for null, "new" for a
                            \*   sample received since the latest startTracking
                            \*   began, "old" for one received before it
    publishes,      \* saveLocationToFirebase promises not yet settled
    \* the Android LocationTrackingService
    lts             \* the service instance: its fields, what it has
                    \*   registered with the platform, and counts of what
                    \*   it has done in its lifetime

vars == <<stops, routeState, activeTripId, message, restorePc,
          startCalls, rtQ, fsQ, nextTripId, trips, rtdb, reloads, failures,
          reachedWrites, marks, staleMark,
          functionsOn, fnQ, tripNo, startBatches, stopBatches,
          mounted, shouldTrack, isNative, isStartingRef, isStoppingRef,
          isTrackingRef, startPc, stopPc, watchIdRef, watching, intervalIdRef,
          service, wakeLock, isTracking, error, lastErrorRef,
          consecutiveErrorsRef, lastLocationRef, publishes, lts>>

\* the state of useLocationTracking and of the resources it acquires
tracking == <<mounted, shouldTrack, isNative, isStartingRef, isStoppingRef,
              isTrackingRef, startPc, stopPc, watchIdRef, watching,
              intervalIdRef, service, wakeLock, isTracking, error,
              lastErrorRef, consecutiveErrorsRef, lastLocationRef, publishes>>

notify == <<functionsOn, fnQ, tripNo, startBatches, stopBatches>>

local == <<stops, routeState, activeTripId, message>>
ghost == <<reachedWrites, marks, staleMark>>

(* ------------------------------ the route ------------------------------ *)
\* order of the i-th stop of the route document; getRouteById sorts the
\* stops by order, so the list is ascending
StopOrder(i) == 10 * i

\* driver.route.stops as loaded at login: every status 'pending'
RouteStops ==
    [i \in StopIds |-> [id |-> i, order |-> StopOrder(i), status |-> "pending"]]

Statuses(s) == [i \in 1..Len(s) |-> s[i].status]

\* Array.prototype.findIndex / find on the status, NoStop when none
FirstWithStatus(s, st) ==
    IF \E i \in 1..Len(s) : s[i].status = st
    THEN CHOOSE i \in 1..Len(s) :
            /\ s[i].status = st
            /\ \A j \in 1..(i - 1) : s[j].status # st
    ELSE NoStop

\* a findIndex whose "not found" is clamped to the first index
CurrentIndexClamped(s) ==
    IF FirstWithStatus(s, "current") = NoStop THEN 1 ELSE FirstWithStatus(s, "current")

\* stops.findIndex((stop) => stop.status === 'current')
CurrentIndex(s) == FirstWithStatus(s, "current")

\* findIndex((s) => s.id === id)
IndexOfId(s, id) ==
    IF \E i \in 1..Len(s) : s[i].id = id
    THEN CHOOSE i \in 1..Len(s) :
            /\ s[i].id = id
            /\ \A j \in 1..(i - 1) : s[j].id # id
    ELSE NoStop

(* ------------------------ requests to the stores ----------------------- *)
\* One record shape for every request; fields a request does not use keep
\* the defaults of Req.  n is the position of the call among the store
\* calls its handler makes.
Req == [op |-> "none", n |-> 0, trip |-> NoTrip, rs |-> "none", stop |-> NoStop,
        cur |-> NoStop, sts |-> <<>>, cont |-> FALSE, ep |-> 0]

\* writeBusLocationMeta: set(buses/{bus}/location, {routeId, ..., routeState})
ReqLocMeta(rs) == [Req EXCEPT !.op = "locMeta", !.rs = rs]
\* updateRouteState: set(buses/{bus}/routeState, {state})
ReqRouteState(rs) == [Req EXCEPT !.op = "routeState", !.rs = rs]
\* saveStopsProgressToFirebase(bus, stops)
ReqSaveStops(s) == [Req EXCEPT !.op = "saveStops", !.sts = Statuses(s)]
\* markStopReachedInRTDB(bus, reachedStopId, Date.now(), nextCurrentStop)
ReqMarkRtdb(id, nextId) == [Req EXCEPT !.op = "markRtdb", !.stop = id, !.cur = nextId]
\* startTrip(input): addDoc with a generated id; cur is the stop the
\* .then() continuation finds 'current' in nextStops; cont is TRUE while
\* the page that issued the call can still run that continuation
ReqStartTrip(t, s, curId) ==
    [Req EXCEPT !.op = "startTrip", !.trip = t, !.sts = Statuses(s),
                !.cur = curId, !.cont = TRUE]
\* updateTripRouteState({tripId, routeState, currentStop})
ReqUpdateTrip(t, rs, curId) ==
    [Req EXCEPT !.op = "updateTrip", !.trip = t, !.rs = rs, !.cur = curId]
\* markStopReached({tripId, stop})
ReqMarkStop(t, id) == [Req EXCEPT !.op = "markStop", !.trip = t, !.stop = id]
\* finishTrip({tripId})
ReqFinishTrip(t) == [Req EXCEPT !.op = "finishTrip", !.trip = t]

RtdbOps == {"locMeta", "routeState", "saveStops", "markRtdb"}
TripOps == {"startTrip", "updateTrip", "markStop", "finishTrip"}

IsRtdbReq(r) == r.op \in RtdbOps
IsTripReq(r) == r.op \in TripOps

\* the calls of one handler, numbered in the order the handler makes them
Numbered(reqs) == [i \in 1..Len(reqs) |-> [reqs[i] EXCEPT !.n = i]]
RtdbCalls(reqs) == SelectSeq(Numbered(reqs), IsRtdbReq)
TripCalls(reqs) == SelectSeq(Numbered(reqs), IsTripReq)

\* a history counter advanced by one
Count(c) == IF c < MaxCount THEN c + 1 ELSE c

RemoveAt(q, i) == [j \in 1..(Len(q) - 1) |-> IF j < i THEN q[j] ELSE q[j + 1]]

HasRoom(reqs) ==
    /\ Len(rtQ) + Len(RtdbCalls(reqs)) <= MaxInFlight
    /\ Len(fsQ) + Len(TripCalls(reqs)) <= MaxInFlight

\* the requests q, each tagged with the logical trip e it is issued in
Stamped(q, e) == [i \in 1..Len(q) |-> [q[i] EXCEPT !.ep = e]]

\* the handler issues reqs during the logical trip e
IssueIn(reqs, e) ==
    /\ rtQ' = rtQ \o Stamped(RtdbCalls(reqs), e)
    /\ fsQ' = fsQ \o Stamped(TripCalls(reqs), e)

\* the handler issues reqs
Issue(reqs) == IssueIn(reqs, tripNo)

(* ------------------------------- stores -------------------------------- *)
\* a trip document that does not exist
NoDoc == [status |-> "absent", routeState |-> "absent",
          stops |-> [i \in StopIds |-> [status |-> "absent", reachedAt |-> FALSE]],
          currentStop |-> NoStop]

\* the document startTrip creates
NewTripDoc(sts) ==
    [status |-> "in_progress", routeState |-> "in_progress",
     stops |-> [i \in StopIds |-> [status |-> sts[i], reachedAt |-> FALSE]],
     currentStop |-> NoStop]

\* updateDoc of updateTripRouteState
DocUpdateRouteState(d, rs, curId) ==
    [d EXCEPT !.routeState = rs, !.currentStop = curId]

\* updateDoc of markStopReached: only the reached stop's fields
DocMarkStopReached(d, id) ==
    [d EXCEPT !.stops[id] = [status |-> "reached", reachedAt |-> TRUE]]

\* updateDoc of finishTrip
DocFinish(d) == [d EXCEPT !.status = "completed", !.routeState = "completed"]

\* buses/{bus} before the driver app has written anything
EmptyRtdb ==
    [routeState |-> "absent",
     location |-> [routeId |-> FALSE, routeState |-> "absent"],
     meta |-> [routeStartNotified |-> FALSE],
     stops |-> [i \in StopIds |->
                  [status |-> "absent", reachedAt |-> FALSE, notified |-> FALSE]],
     stopsByName |-> [i \in StopIds |-> "absent"],
     currentStop |-> -1]

\* the stop saveStopsProgressToFirebase publishes as currentStop:
\* find current ?? find pending ?? null
SaveStopsCurrent(sts) ==
    IF \E i \in 1..Len(sts) : sts[i] = "current"
    THEN CHOOSE i \in 1..Len(sts) :
            sts[i] = "current" /\ \A j \in 1..(i - 1) : sts[j] # "current"
    ELSE IF \E i \in 1..Len(sts) : sts[i] = "pending"
    THEN CHOOSE i \in 1..Len(sts) :
            sts[i] = "pending" /\ \A j \in 1..(i - 1) : sts[j] # "pending"
    ELSE NoStop

RtdbSetLocationMeta(db, rs) ==
    [db EXCEPT !.location = [routeId |-> TRUE, routeState |-> rs]]

RtdbSetRouteState(db, rs) == [db EXCEPT !.routeState = rs]

\* multi-path update of saveStopsProgressToFirebase: every stops/{id} node
\* is replaced by {id, name, order, status, reachedAt?}, so reachedAt is
\* present exactly for 'reached' stops and any other child of the node
\* (notified) is gone; the same status goes to stopsByName/{toSafeKey(name)}
\* (the stops of a route have different names, one key per stop)
RtdbSaveStops(db, sts) ==
    [db EXCEPT
        !.stops = [i \in StopIds |->
                      [status |-> sts[i], reachedAt |-> (sts[i] = "reached"),
                       notified |-> FALSE]],
        !.stopsByName = [i \in StopIds |-> sts[i]],
        !.currentStop = SaveStopsCurrent(sts)]

\* a mark-reached publish that rewrites the node of every stop
RtdbMarkReachedFullList(db, id, nextId) ==
    LET s1 == [i \in StopIds |->
                  [status |-> db.stops[i].status, reachedAt |-> db.stops[i].reachedAt,
                   notified |-> FALSE]]
        s2 == [s1 EXCEPT ![id].status = "reached", ![id].reachedAt = TRUE]
        s3 == IF nextId = NoStop THEN s2
              ELSE [s2 EXCEPT ![nextId].status = "current"]
    IN  [db EXCEPT !.stops = s3, !.currentStop = nextId]

\* multi-path update of markStopReachedInRTDB: the paths stops/{id}/status,
\* stops/{id}/reachedAt, currentStop and, with a next stop,
\* stops/{nextId}/status
RtdbMarkReached(db, id, nextId) ==
    LET s1 == [db.stops EXCEPT ![id].status = "reached", ![id].reachedAt = TRUE]
        s2 == IF nextId = NoStop THEN s1
              ELSE [s1 EXCEPT ![nextId].status = "current"]
    IN  [db EXCEPT !.stops = s2, !.currentStop = nextId]

(* ---------------------- LocationTrackingService ------------------------ *)
\* no instance of the service exists: lifetime counts the instances created
NoService ==
    [alive |-> "none", lifetime |-> 0,
     isServiceRunning |-> FALSE,    \* private boolean isServiceRunning
     routeFields |-> 0,             \* driverId ... currentStopName: 0 for "",
                                    \*   else the intent they were taken from
     notification |-> 0,            \* the fields the notification was built from
     foreground |-> FALSE,          \* startForeground has succeeded
     stopping |-> FALSE,            \* stopSelf() has been called
     locationLive |-> FALSE,        \* locationCallback is registered
     repinPending |-> 0,            \* posts of notificationRepinRunnable pending
     wakeLockHeld |-> FALSE,        \* wakeLock.isHeld()
     locationRegs |-> 0,            \* requestLocationUpdates calls of this lifetime
     repinChains |-> 0,             \* re-pin timers started in this lifetime
     commands |-> 0,                \* onStartCommand calls of this lifetime
     repins |-> 0]                  \* runs of the re-pin timer in this lifetime

(* -------------------------------- Init --------------------------------- *)
\* the hook after its first render: every ref and state at its initial value
InitTracking(native) ==
    /\ mounted = TRUE
    /\ shouldTrack = FALSE
    /\ isNative = native
    /\ isStartingRef = FALSE
    /\ isStoppingRef = FALSE
    /\ isTrackingRef = FALSE
    /\ startPc = "idle"
    /\ stopPc = "idle"
    /\ watchIdRef = FALSE
    /\ watching = FALSE
    /\ intervalIdRef = FALSE
    /\ service = FALSE
    /\ wakeLock = FALSE
    /\ isTracking = FALSE
    /\ error = "none"
    /\ lastErrorRef = "none"
    /\ consecutiveErrorsRef = 0
    /\ lastLocationRef = "none"
    /\ publishes = 0

InitPage ==
    /\ stops = RouteStops
    /\ routeState = "not_started"
    /\ activeTripId = NoTrip
    /\ message = "none"
    /\ restorePc = "pending"
    /\ startCalls = <<>>
    /\ rtQ = <<>>
    /\ fsQ = <<>>
    /\ nextTripId = 1
    /\ trips = [t \in TripIds |-> NoDoc]
    /\ rtdb = EmptyRtdb
    /\ reloads = 0
    /\ failures = 0
    /\ reachedWrites = [i \in StopIds |-> 0]
    /\ marks = -1
    /\ staleMark = FALSE
    /\ functionsOn = FALSE
    /\ fnQ = <<>>
    /\ tripNo = 0
    /\ startBatches = 0
    /\ stopBatches = [i \in StopIds |-> 0]

Init == InitPage /\ InitTracking(FALSE) /\ lts = NoService

(* --------------------------- pure helpers ------------------------------ *)
\* a start that makes the last stop of the list 'current'
StartStopsFromLast(s) ==
    [i \in 1..Len(s) |->
        IF i = Len(s) THEN [s[i] EXCEPT !.status = "current"]
        ELSE [s[i] EXCEPT !.status = "pending"]]

\* nextStops of handleStartRoute: index 0 'current', every other 'pending'
StartStops(s) ==
    [i \in 1..Len(s) |->
        IF i = 1 THEN [s[i] EXCEPT !.status = "current"]
        ELSE [s[i] EXCEPT !.status = "pending"]]

\* a mark-reached that does not promote the next stop
MarkStopsNoPromote(s, ci) ==
    [i \in 1..Len(s) |->
        IF i = ci THEN [s[i] EXCEPT !.status = "reached"] ELSE s[i]]

\* nextStops of handleMarkReached for the current index ci
MarkStops(s, ci) ==
    LET isLastStop == (ci = Len(s))
    IN  [i \in 1..Len(s) |->
            IF i = ci THEN [s[i] EXCEPT !.status = "reached"]
            ELSE IF i = ci + 1 /\ ~isLastStop THEN [s[i] EXCEPT !.status = "current"]
            ELSE s[i]]

\* resetStops of the auto-reset effect
ResetStops == [i \in 1..Len(RouteStops) |-> [RouteStops[i] EXCEPT !.status = "pending"]]

\* id of the stop nextStops.find((s) => s.status === "current"), or null
CurrentId(s) == IF CurrentIndex(s) = NoStop THEN NoStop ELSE s[CurrentIndex(s)].id

\* restoredStops of restoreTripState for the trip document d
RestoredStops(d) ==
    LET base == [i \in 1..Len(RouteStops) |->
                    LET tripStop == d.stops[RouteStops[i].id]
                    IN  IF tripStop.status # "absent"
                        THEN [RouteStops[i] EXCEPT !.status = tripStop.status]
                        ELSE RouteStops[i]]
        ci == IF d.currentStop = NoStop THEN NoStop ELSE IndexOfId(base, d.currentStop)
    IN  IF ci = NoStop THEN base
        ELSE [i \in 1..Len(base) |->
                IF i = ci THEN [base[i] EXCEPT !.status = "current"]
                ELSE IF i < ci THEN [base[i] EXCEPT !.status = "reached"]
                ELSE IF base[i].status # "reached"
                     THEN [base[i] EXCEPT !.status = "pending"]
                     ELSE base[i]]

\* getActiveTrip(busNumber): the trips of the bus that are still in progress
ActiveTrips == {t \in TripIds : trips[t].status = "in_progress"}

\* RouteActionButton: the handler wired to the button it renders
ButtonHandler(rs) ==
    IF rs = "not_started" THEN "onStartRoute"
    ELSE IF rs = "in_progress" THEN "onMarkReached"
    ELSE "disabled"

(* ------------------------------ handlers ------------------------------- *)
\* handleStartRoute up to its first await: the in_progress guard is read
\* here, and the invocation keeps the stops of the render it was created in
HandleStartRoute ==
    /\ ButtonHandler(routeState) = "onStartRoute"
    /\ routeState # "in_progress"
    /\ nextTripId + Len(startCalls) <= MaxTrips
    /\ startCalls' = Append(startCalls, stops)
    /\ UNCHANGED <<tracking, lts, notify, local, restorePc, rtQ, fsQ, nextTripId, trips, rtdb, reloads, failures, ghost>>

\* handleStartRoute after requestPermissionsDirect() has settled
StartResume(i) ==
    LET nextStops == StartStops(startCalls[i])
        newTrip == (routeState # "in_progress")
        reqs == <<ReqLocMeta("in_progress"), ReqRouteState("in_progress"),
                  ReqSaveStops(nextStops),
                  ReqStartTrip(nextTripId, nextStops, CurrentId(nextStops))>>
    IN  /\ HasRoom(reqs)
        /\ stops' = nextStops
        /\ routeState' = "in_progress"
        /\ message' = "started"
        /\ IssueIn(reqs, IF newTrip THEN tripNo + 1 ELSE tripNo)
        /\ nextTripId' = nextTripId + 1
        /\ startCalls' = RemoveAt(startCalls, i)
        /\ reachedWrites' = IF newTrip THEN [j \in StopIds |-> 0] ELSE reachedWrites
        /\ marks' = 0
        /\ tripNo' = IF newTrip THEN tripNo + 1 ELSE tripNo
        /\ startBatches' = IF newTrip THEN 0 ELSE startBatches
        /\ stopBatches' = IF newTrip THEN [j \in StopIds |-> 0] ELSE stopBatches
        /\ UNCHANGED <<tracking, lts, functionsOn, fnQ, activeTripId, restorePc, trips, rtdb, reloads, failures, staleMark>>

HandleStartRouteResume == \E i \in 1..Len(startCalls) : StartResume(i)

\* the store calls of handleMarkReached, in call order
MarkReachedCalls(s, tripId) ==
    LET currentIndex == CurrentIndex(s)
        isLastStop == (currentIndex = Len(s))
        reachedStop == s[currentIndex]
        nextId == CurrentId(MarkStops(s, currentIndex))
    IN  (IF tripId # NoTrip
         THEN <<ReqMarkStop(tripId, reachedStop.id),
                ReqUpdateTrip(tripId,
                              IF isLastStop THEN "completed" ELSE "in_progress",
                              nextId)>>
         ELSE <<>>)
        \o <<ReqMarkRtdb(reachedStop.id, nextId)>>
        \o (IF isLastStop THEN <<ReqRouteState("completed")>> ELSE <<>>)
        \o (IF isLastStop /\ tripId # NoTrip THEN <<ReqFinishTrip(tripId)>> ELSE <<>>)

\* the body of handleMarkReached: early return when no stop is 'current'
MarkReached ==
    LET currentIndex == CurrentIndex(stops)
        isLastStop == (currentIndex = Len(stops))
        reqs == MarkReachedCalls(stops, activeTripId)
    IN  /\ IF currentIndex = NoStop
           THEN /\ staleMark' = TRUE
                /\ UNCHANGED <<local, rtQ, fsQ, reachedWrites, marks>>
           ELSE /\ HasRoom(reqs)
                /\ stops' = MarkStops(stops, currentIndex)
                /\ routeState' = IF isLastStop THEN "completed" ELSE routeState
                /\ message' = IF isLastStop THEN "completed" ELSE "reached"
                /\ Issue(reqs)
                /\ reachedWrites' =
                      [reachedWrites EXCEPT ![stops[currentIndex].id] = Count(@)]
                /\ marks' = IF marks >= 0 THEN marks + 1 ELSE marks
                /\ UNCHANGED <<activeTripId, staleMark>>
        /\ UNCHANGED <<tracking, lts, notify, restorePc, startCalls, nextTripId, trips, rtdb, reloads, failures>>

\* handleMarkReached invoked from the button RouteActionButton renders
HandleMarkReached ==
    /\ ButtonHandler(routeState) = "onMarkReached"
    /\ MarkReached

\* handleMarkReached invoked by a stale UI event, when the rendered button
\* is not wired to it
StaleMarkReached ==
    /\ ButtonHandler(routeState) # "onMarkReached"
    /\ MarkReached

\* the timer of the auto-reset effect fires; the effect arms it when
\* routeState becomes 'completed' and its cleanup clears it on any change
AutoReset ==
    LET reqs == <<ReqSaveStops(ResetStops), ReqRouteState("not_started")>>
    IN  /\ routeState = "completed"
        /\ HasRoom(reqs)
        /\ stops' = ResetStops
        /\ routeState' = "not_started"
        /\ message' = "none"
        /\ activeTripId' = NoTrip
        /\ Issue(reqs)
        /\ reachedWrites' = [j \in StopIds |-> 0]
        /\ marks' = -1
        /\ UNCHANGED <<tracking, lts, notify, restorePc, startCalls, nextTripId, trips, rtdb, reloads, failures, staleMark>>

\* a setTimeout(() => setMessage(null), ...) fires: every non-null message
\* has such a timer pending
ClearMessage ==
    /\ message # "none"
    /\ message' = "none"
    /\ UNCHANGED <<tracking, lts, notify, stops, routeState, activeTripId, restorePc, startCalls, rtQ, fsQ,
                   nextTripId, trips, rtdb, reloads, failures, ghost>>

\* restoreTripState after getActiveTrip resolved with the trip document t
RestoreTrip(t) ==
    LET activeTrip == trips[t]
        restoredStops == RestoredStops(activeTrip)
        reqs == <<ReqRouteState(activeTrip.routeState), ReqSaveStops(restoredStops),
                  ReqLocMeta(activeTrip.routeState)>>
    IN  /\ HasRoom(reqs)
        /\ stops' = restoredStops
        /\ routeState' = activeTrip.routeState
        /\ activeTripId' = t
        /\ message' = "restored"
        /\ Issue(reqs)
        /\ reachedWrites' = [j \in StopIds |->
                               IF restoredStops[IndexOfId(restoredStops, j)].status = "reached"
                               THEN Count(reachedWrites[j]) ELSE reachedWrites[j]]
        /\ marks' = -1

RestoreTripState ==
    /\ restorePc = "pending"
    /\ restorePc' = "done"
    /\ \/ /\ ActiveTrips = {}
          /\ UNCHANGED <<local, rtQ, fsQ, reachedWrites, marks>>
       \/ \E t \in ActiveTrips : RestoreTrip(t)
    /\ UNCHANGED <<tracking, lts, notify, startCalls, nextTripId, trips, rtdb, reloads, failures,
                   staleMark>>

\* getActiveTrip rejects: the catch branch of restoreTripState
RestoreTripStateFail ==
    /\ restorePc = "pending"
    /\ restorePc' = "done"
    /\ message' = "restore_failed"
    /\ UNCHANGED <<tracking, lts, notify, stops, routeState, activeTripId, startCalls, rtQ, fsQ, nextTripId,
                   trips, rtdb, reloads, failures, ghost>>

\* the page is reloaded: MainRoutePage mounts again with its initial state,
\* suspended handlers and timers of the old page are gone, requests already
\* sent stay in flight
Reload ==
    /\ reloads < MaxReloads
    /\ reloads' = reloads + 1
    /\ stops' = RouteStops
    /\ routeState' = "not_started"
    /\ activeTripId' = NoTrip
    /\ message' = "none"
    /\ restorePc' = "pending"
    /\ startCalls' = <<>>
    /\ fsQ' = [j \in 1..Len(fsQ) |-> [fsQ[j] EXCEPT !.cont = FALSE]]
    /\ marks' = -1
    /\ UNCHANGED <<tracking, lts, notify, rtQ, nextTripId, trips, rtdb, failures, 
                   reachedWrites, staleMark>>

(* ------------------------- the stores respond -------------------------- *)
\* Firestore settles the oldest request: addDoc of startTrip is committed
\* and the .then() of handleStartRoute runs, or an updateDoc is applied
TripWriteApplied ==
    LET r == Head(fsQ)
    IN  /\ fsQ # <<>>
        /\ IF r.op = "startTrip"
           THEN /\ trips' = [trips EXCEPT ![r.trip] = NewTripDoc(r.sts)]
                /\ IF r.cont
                   THEN /\ activeTripId' = r.trip
                        /\ fsQ' = Append(Tail(fsQ),
                                         [ReqUpdateTrip(r.trip, "in_progress", r.cur)
                                            EXCEPT !.n = 1, !.ep = r.ep])
                   ELSE /\ activeTripId' = activeTripId
                        /\ fsQ' = Tail(fsQ)
           ELSE /\ trips[r.trip].status # "absent"
                /\ trips' = [trips EXCEPT ![r.trip] =
                      IF r.op = "updateTrip" THEN DocUpdateRouteState(@, r.rs, r.cur)
                      ELSE IF r.op = "markStop" THEN DocMarkStopReached(@, r.stop)
                      ELSE DocFinish(@)]
                /\ activeTripId' = activeTripId
                /\ fsQ' = Tail(fsQ)
        /\ UNCHANGED <<tracking, lts, notify, stops, routeState, message, restorePc, startCalls, rtQ,
                       nextTripId, rtdb, reloads, failures, ghost>>

\* a failed Firestore request that puts the page back to its initial state
TripWriteFailsWithRollback ==
    /\ fsQ # <<>>
    /\ failures < MaxFailures
    /\ failures' = failures + 1
    /\ fsQ' = Tail(fsQ)
    /\ stops' = RouteStops
    /\ routeState' = "not_started"
    /\ UNCHANGED <<tracking, lts, notify, activeTripId, message, restorePc, startCalls, rtQ,
                   nextTripId, trips, rtdb, reloads, ghost>>

\* the oldest Firestore request fails: its promise rejects into
\* .catch(console.error), a failed startTrip skips its .then()
TripWriteFails ==
    /\ fsQ # <<>>
    /\ failures < MaxFailures
    /\ failures' = failures + 1
    /\ fsQ' = Tail(fsQ)
    /\ UNCHANGED <<tracking, lts, notify, local, restorePc, startCalls, rtQ, nextTripId, trips, rtdb,
                   reloads, ghost>>

\* buses/{bus} after the set() or update() of request r
RtdbApply(db, r) ==
    IF r.op = "locMeta" THEN RtdbSetLocationMeta(db, r.rs)
    ELSE IF r.op = "routeState" THEN RtdbSetRouteState(db, r.rs)
    ELSE IF r.op = "saveStops" THEN RtdbSaveStops(db, r.sts)
    ELSE RtdbMarkReached(db, r.stop, r.cur)

\* an invocation of a function, with the before/after values of its event
Invocation(fn, id, before, after, e) ==
    [fn |-> fn, stop |-> id, before |-> before, after |-> after, ep |-> e,
     pc |-> "triggered"]

\* onValueUpdated(buses/{bus}/routeState): the node holds {state, updatedAt:
\* serverTimestamp()}, so every set() of a node that existed changes it
RouteStateEvents(db, r) ==
    IF r.op = "routeState" /\ db.routeState # "absent"
    THEN <<Invocation("notifyStudentsRouteStarted", NoStop, db.routeState, r.rs, r.ep)>>
    ELSE <<>>

\* onValueUpdated(buses/{bus}/stops/{stopId}/status): one event for every
\* stop whose status existed and has changed
StopStatusEvents(db, db2, r) ==
    LET changed(i) == /\ db.stops[i].status # "absent"
                      /\ db2.stops[i].status # db.stops[i].status
        all == [i \in StopIds |->
                  Invocation("notifyStudentsStopReached", i, db.stops[i].status,
                             db2.stops[i].status, r.ep)]
        IsChanged(v) == changed(v.stop)
    IN  SelectSeq(all, IsChanged)

\* the invocation returns before its first read or write: 'after' is not
\* the value the function reacts to, or routeState was in_progress already
ReturnsAtOnce(v) ==
    IF v.fn = "notifyStudentsRouteStarted"
    THEN /\ v.after # "completed"
         /\ (v.after # "in_progress" \/ v.before = "in_progress")
    ELSE v.after # "reached"

\* the function invocations the write r triggers; those that return at
\* once are over as soon as they are triggered
Triggered(db, r) ==
    LET Runs(v) == ~ReturnsAtOnce(v)
    IN  IF functionsOn
        THEN SelectSeq(RouteStateEvents(db, r)
                          \o StopStatusEvents(db, RtdbApply(db, r), r), Runs)
        ELSE <<>>

\* the Realtime Database applies the oldest set() or update() and triggers
\* the functions that watch the paths it changed
RtdbWriteApplied ==
    LET r == Head(rtQ)
    IN  /\ rtQ # <<>>
        /\ Len(fnQ) + Len(Triggered(rtdb, r)) <= MaxInvocations
        /\ rtdb' = RtdbApply(rtdb, r)
        /\ rtQ' = Tail(rtQ)
        /\ fnQ' = fnQ \o Triggered(rtdb, r)
        /\ UNCHANGED <<tracking, lts, functionsOn, tripNo, startBatches, stopBatches, local,
                       restorePc, startCalls, fsQ, nextTripId, trips, reloads,
                       failures, ghost>>

\* the oldest Realtime Database request fails
RtdbWriteFails ==
    /\ rtQ # <<>>
    /\ failures < MaxFailures
    /\ failures' = failures + 1
    /\ rtQ' = Tail(rtQ)
    /\ UNCHANGED <<tracking, lts, notify, local, restorePc, startCalls, fsQ, nextTripId, trips, rtdb,
                   reloads, ghost>>

(* -------------------------- Cloud Functions --------------------------- *)
\* firebase deploy --only functions
DeployFunctions ==
    /\ ~functionsOn
    /\ functionsOn' = TRUE
    /\ UNCHANGED <<tracking, lts, local, restorePc, startCalls, rtQ, fsQ, nextTripId, trips, rtdb,
                   reloads, failures, ghost, fnQ, tripNo, startBatches, stopBatches>>

\* the cleanup of notifyStudentsRouteStarted for afterState 'completed':
\* meta/routeStartNotified and every stops/{id}/notified are removed
ClearedFlags(db) ==
    [db EXCEPT !.meta.routeStartNotified = FALSE,
               !.stops = [i \in StopIds |-> [db.stops[i] EXCEPT !.notified = FALSE]]]

\* notifiedRef.set(true) of invocation v
FlagSet(db, v) ==
    IF v.fn = "notifyStudentsRouteStarted"
    THEN [db EXCEPT !.meta.routeStartNotified = TRUE]
    ELSE [db EXCEPT !.stops[v.stop].notified = TRUE]

\* invocation i of notifyStudentsRouteStarted runs from its trigger to the
\* end of sendMulticastBatched, or to an earlier return; hasTokens tells
\* whether getStudentsByPredicate finds a student with an FCM token
RouteStartedRun(i, hasTokens) ==
    LET v == fnQ[i]
    IN  /\ v.fn = "notifyStudentsRouteStarted"
        /\ v.pc = "triggered"
        /\ IF v.after = "completed"
           THEN /\ rtdb' = ClearedFlags(rtdb)
                /\ fnQ' = RemoveAt(fnQ, i)
                /\ startBatches' = startBatches
           ELSE IF \/ ReturnsAtOnce(v)
                   \/ rtdb.meta.routeStartNotified
                   \/ ~rtdb.location.routeId
                   \/ ~hasTokens
           THEN /\ rtdb' = rtdb
                /\ fnQ' = RemoveAt(fnQ, i)
                /\ startBatches' = startBatches
           ELSE /\ rtdb' = rtdb
                /\ fnQ' = [fnQ EXCEPT ![i].pc = "sent"]
                /\ startBatches' = IF v.ep = tripNo THEN Count(startBatches)
                                   ELSE startBatches
        /\ UNCHANGED <<tracking, lts, local, restorePc, startCalls, rtQ, fsQ, nextTripId, trips,
                       reloads, failures, ghost, functionsOn, tripNo, stopBatches>>

NotifyStudentsRouteStarted ==
    \E i \in 1..Len(fnQ), hasTokens \in BOOLEAN : RouteStartedRun(i, hasTokens)

\* invocation i of notifyStudentsStopReached runs from its trigger to the
\* end of sendMulticastBatched, or to an earlier return; without tokens it
\* sends nothing and goes on to set the notified flag
StopReachedRun(i, hasTokens) ==
    LET v == fnQ[i]
    IN  /\ v.fn = "notifyStudentsStopReached"
        /\ v.pc = "triggered"
        /\ IF \/ ReturnsAtOnce(v)
              \/ rtdb.stops[v.stop].notified
              \/ ~rtdb.location.routeId
           THEN /\ fnQ' = RemoveAt(fnQ, i)
                /\ stopBatches' = stopBatches
           ELSE /\ fnQ' = [fnQ EXCEPT ![i].pc = "sent"]
                /\ stopBatches' = IF hasTokens /\ v.ep = tripNo
                                  THEN [stopBatches EXCEPT ![v.stop] = Count(@)]
                                  ELSE stopBatches
        /\ UNCHANGED <<tracking, lts, local, restorePc, startCalls, rtQ, fsQ, nextTripId, trips, rtdb,
                       reloads, failures, ghost, functionsOn, tripNo, startBatches>>

NotifyStudentsStopReached ==
    \E i \in 1..Len(fnQ), hasTokens \in BOOLEAN : StopReachedRun(i, hasTokens)

\* an invocation that is past its send sets its notified flag and ends
NotifiedSet(i) ==
    /\ fnQ[i].pc = "sent"
    /\ rtdb' = FlagSet(rtdb, fnQ[i])
    /\ fnQ' = RemoveAt(fnQ, i)
    /\ UNCHANGED <<tracking, lts, local, restorePc, startCalls, rtQ, fsQ, nextTripId, trips,
                   reloads, failures, ghost, functionsOn, tripNo, startBatches,
                   stopBatches>>

SetNotified == \E i \in 1..Len(fnQ) : NotifiedSet(i)

(* -------------------------- useLocationTracking ------------------------ *)
\* The hook keeps the positioning watch, the publish interval, the Android
\* foreground service and the wake lock while the route is in progress.
\* startTracking and stopTracking are async functions: each one runs up to
\* its next await in one step, and other callbacks run in between.

\* consecutive failed publishes that make the hook show the connection error
ErrorThreshold == 3

\* everything of the model that the hook does not touch
app == <<local, restorePc, startCalls, rtQ, fsQ, nextTripId, trips, rtdb,
         reloads, failures, ghost, notify, lts>>

\* what the synchronous part of startTracking writes
startVars == <<isStartingRef, isTrackingRef, isTracking, error, startPc,
               lastLocationRef>>
\* what the synchronous part of stopTracking writes
stopVars == <<isStoppingRef, watchIdRef, watching, intervalIdRef, stopPc>>
\* the resources the awaited steps acquire and release
held == <<service, wakeLock>>
\* the state of the publish interval's callbacks
publishing == <<lastErrorRef, consecutiveErrorsRef, publishes>>

\* startTracking leaves lastLocationRef alone: a sample it holds is from
\* now on one of an earlier tracking session
Remembered(sample) == IF sample = "none" THEN "none" ELSE "old"

\* startTracking from its call to its first await (checkPermissions)
StartTrackingCall ==
    IF isStartingRef \/ isTrackingRef
    THEN UNCHANGED startVars
    ELSE /\ isStartingRef' = TRUE
         /\ isTrackingRef' = TRUE
         /\ isTracking' = TRUE
         /\ error' = "none"
         /\ startPc' = "checkPermissions"
         /\ lastLocationRef' = Remembered(lastLocationRef)

\* clearWatch(watchId): a Capacitor watch is cleared on the native platform;
\* the web branch asks for a number, and watchLocation returns the id of a
\* web watch as a string, so a web watch keeps running
ClearWatch(native, live) == IF native THEN FALSE ELSE live

\* stopTracking from its call to its first await (stopForegroundService)
StopTrackingCall ==
    IF isStoppingRef \/ ~isTrackingRef
    THEN UNCHANGED stopVars
    ELSE /\ isStoppingRef' = TRUE
         /\ watching' = IF watchIdRef THEN ClearWatch(isNative, watching)
                                      ELSE watching
         /\ watchIdRef' = FALSE
         /\ intervalIdRef' = FALSE
         /\ stopPc' = "stopForegroundService"

\* the effect on [isActive, routeState]: the page passes isActive = true, so
\* shouldTrack is routeState === 'in_progress'.  The effect runs when
\* routeState changes: shouldTrack changes, or stays false (completed to
\* not_started).
TrackingEffect ==
    /\ mounted
    /\ \E s \in BOOLEAN :
        /\ s \/ shouldTrack
        /\ shouldTrack' = s
        /\ IF s /\ ~isTrackingRef
           THEN StartTrackingCall /\ UNCHANGED stopVars
           ELSE IF ~s /\ isTrackingRef
                THEN StopTrackingCall /\ UNCHANGED startVars
                ELSE UNCHANGED <<startVars, stopVars>>
    /\ UNCHANGED <<app, mounted, isNative, held, publishing>>

\* the cleanup of the unmount effect
Unmount ==
    /\ mounted
    /\ mounted' = FALSE
    /\ IF isTrackingRef THEN StopTrackingCall ELSE UNCHANGED stopVars
    /\ UNCHANGED <<app, shouldTrack, isNative, startVars, held, publishing>>

\* await checkPermissions() resolves; it never rejects
CheckPermissionsResolves(granted) ==
    /\ startPc = "checkPermissions"
    /\ IF granted
       THEN /\ startPc' = "startForegroundService"
            /\ UNCHANGED <<isStartingRef, isTrackingRef, isTracking, error>>
       ELSE /\ error' = "permission"
            /\ isTrackingRef' = FALSE
            /\ isTracking' = FALSE
            /\ isStartingRef' = FALSE
            /\ startPc' = "idle"
    /\ UNCHANGED <<app, mounted, shouldTrack, isNative, stopVars, held, publishing,
                   lastLocationRef>>

\* await startForegroundService(options) settles: nothing to do on the web;
\* on Android the plugin starts the service or rejects, and the rejection
\* lands in the catch and the finally of startTracking
StartForegroundServiceSettles(ok) ==
    /\ startPc = "startForegroundService"
    /\ isNative \/ ok
    /\ IF ok
       THEN /\ service' = (isNative \/ service)
            /\ startPc' = "acquire"
            /\ UNCHANGED <<isStartingRef, isTrackingRef, isTracking, error>>
       ELSE /\ isTrackingRef' = FALSE
            /\ isTracking' = FALSE
            /\ error' = "start"
            /\ isStartingRef' = FALSE
            /\ startPc' = "idle"
            /\ UNCHANGED service
    /\ UNCHANGED <<app, mounted, shouldTrack, isNative, stopVars, wakeLock, publishing,
                   lastLocationRef>>

\* await wakeLockManagerRef.current.acquire() resolves
WakeLockAcquired ==
    /\ startPc = "acquire"
    /\ wakeLock' = TRUE
    /\ startPc' = "watchLocation"
    /\ UNCHANGED <<app, mounted, shouldTrack, isNative, isStartingRef, isTrackingRef,
                   isTracking, error, stopVars, service, publishing, lastLocationRef>>

\* await watchLocation(...) resolves with an id or with null (it reports
\* its failure through the error callback and never rejects); on the web
\* the hook then arms the publish interval; the finally ends startTracking
WatchLocationResolves(ok) ==
    /\ startPc = "watchLocation"
    /\ watchIdRef' = ok
    /\ watching' = (ok \/ watching)
    /\ intervalIdRef' = (~isNative \/ intervalIdRef)
    /\ IF ~ok /\ ~isNative
       THEN error' = "position" /\ lastErrorRef' = "position"
       ELSE UNCHANGED <<error, lastErrorRef>>
    /\ isStartingRef' = FALSE
    /\ startPc' = "idle"
    /\ UNCHANGED <<app, mounted, shouldTrack, isNative, isTrackingRef, isTracking,
                   isStoppingRef, stopPc, held, consecutiveErrorsRef,
                   lastLocationRef, publishes>>

StartTrackingStep ==
    \/ \E granted \in BOOLEAN : CheckPermissionsResolves(granted)
    \/ \E ok \in BOOLEAN : StartForegroundServiceSettles(ok)
    \/ WakeLockAcquired
    \/ \E ok \in BOOLEAN : WatchLocationResolves(ok)

\* await stopForegroundService() resolves: it swallows the plugin's error,
\* and then the service is still running
StopForegroundServiceResolves(ok) ==
    /\ stopPc = "stopForegroundService"
    /\ isNative \/ ok
    /\ service' = IF ok THEN FALSE ELSE service
    /\ stopPc' = "release"
    /\ UNCHANGED <<app, mounted, shouldTrack, isNative, startVars, isStoppingRef,
                   watchIdRef, watching, intervalIdRef, wakeLock, publishing>>

\* await wakeLockManagerRef.current.release() resolves, and stopTracking
\* runs to its end
WakeLockReleased ==
    /\ stopPc = "release"
    /\ wakeLock' = FALSE
    /\ isTrackingRef' = FALSE
    /\ isTracking' = FALSE
    /\ error' = "none"
    /\ isStoppingRef' = FALSE
    /\ stopPc' = "idle"
    /\ UNCHANGED <<app, mounted, shouldTrack, isNative, isStartingRef, startPc,
                   watchIdRef, watching, intervalIdRef, service, publishing,
                   lastLocationRef>>

StopTrackingStep ==
    \/ \E ok \in BOOLEAN : StopForegroundServiceResolves(ok)
    \/ WakeLockReleased

\* the success callback of the watch
LocationArrives ==
    /\ watching
    /\ lastLocationRef # "new"
    /\ lastLocationRef' = "new"
    /\ UNCHANGED <<app, mounted, shouldTrack, isNative, isStartingRef, isTrackingRef,
                   isTracking, error, startPc, stopVars, held,
                   lastErrorRef, consecutiveErrorsRef, publishes>>

\* the error callback of the watch: on the web it shows the message, on the
\* native platform it only logs
LocationError ==
    /\ watching
    /\ ~isNative
    /\ error' = "position"
    /\ lastErrorRef' = "position"
    /\ UNCHANGED <<app, mounted, shouldTrack, isNative, isStartingRef, isTrackingRef,
                   isTracking, startPc, stopVars, held, consecutiveErrorsRef,
                   lastLocationRef, publishes>>

\* the interval callback: publish the last location, if there is one
PublishTick ==
    /\ intervalIdRef
    /\ lastLocationRef # "none"
    /\ publishes < MaxPublishes
    /\ publishes' = publishes + 1
    /\ UNCHANGED <<app, mounted, shouldTrack, isNative, startVars, stopVars, held,
                   lastErrorRef, consecutiveErrorsRef>>

\* a success handler that leaves the count alone
CountAfterSuccessKept(n) == n

\* consecutiveErrorsRef.current = 0 in the success handler
CountAfterSuccess(n) == 0

\* .then of saveLocationToFirebase
PublishSucceeds ==
    /\ publishes > 0
    /\ publishes' = publishes - 1
    /\ consecutiveErrorsRef' = CountAfterSuccess(consecutiveErrorsRef)
    /\ IF lastErrorRef = "connection"
       THEN error' = "none" /\ lastErrorRef' = "none"
       ELSE UNCHANGED <<error, lastErrorRef>>
    /\ UNCHANGED <<app, mounted, shouldTrack, isNative, isStartingRef, isTrackingRef,
                   isTracking, startPc, stopVars, held, lastLocationRef>>

\* .catch of saveLocationToFirebase
PublishFails ==
    /\ publishes > 0
    /\ consecutiveErrorsRef < MaxConsecutive
    /\ publishes' = publishes - 1
    /\ consecutiveErrorsRef' = consecutiveErrorsRef + 1
    /\ IF consecutiveErrorsRef' >= ErrorThreshold
       THEN error' = "connection" /\ lastErrorRef' = "connection"
       ELSE UNCHANGED <<error, lastErrorRef>>
    /\ UNCHANGED <<app, mounted, shouldTrack, isNative, isStartingRef, isTrackingRef,
                   isTracking, startPc, stopVars, held, lastLocationRef>>

\* the callbacks of the watch and of the publish interval
PublishNext ==
    \/ LocationArrives
    \/ LocationError
    \/ PublishTick
    \/ PublishSucceeds
    \/ PublishFails

\* the hook driven by its component: route-state changes and the unmount
TrackNext ==
    \/ TrackingEffect
    \/ Unmount
    \/ StartTrackingStep
    \/ StopTrackingStep
    \/ PublishNext

(* ------------------- LocationTrackingService: callbacks ---------------- *)
\* everything of the model outside the service
outsideService == <<tracking, local, restorePc, startCalls, rtQ, fsQ, nextTripId,
                    trips, rtdb, reloads, failures, ghost, notify>>

\* the intents a start command can carry: 0 for a null intent (a restart by
\* the system), else the route info of one plugin call
Intents == 0..MaxRouteInfos

\* onCreate of a new instance: every field at its initial value, the wake
\* lock acquired, the location callback built but not registered
OnCreate ==
    /\ lts.alive \in {"none", "destroyed"}
    /\ lts.lifetime < MaxLifetimes
    /\ lts' = [NoService EXCEPT !.alive = "created",
                                !.lifetime = lts.lifetime + 1,
                                !.wakeLockHeld = TRUE]
    /\ UNCHANGED outsideService

\* an onStartCommand that starts the location updates and the re-pin timer
\* on every start command
OnStartCommandUnguarded(intent, fgOk, regOk) ==
    LET f == IF intent = 0 THEN lts.routeFields ELSE intent
        got == [lts EXCEPT !.routeFields = f, !.notification = f,
                           !.commands = Count(@)]
    IN  /\ lts.alive = "created"
        /\ ~lts.stopping
        /\ lts' = IF ~fgOk
                  THEN [got EXCEPT !.stopping = TRUE]
                  ELSE [got EXCEPT !.foreground = TRUE,
                                   !.isServiceRunning = TRUE,
                                   !.locationLive = (regOk \/ @),
                                   !.locationRegs = IF regOk THEN Count(@) ELSE @,
                                   !.repinPending = Count(@),
                                   !.repinChains = Count(@)]
        /\ UNCHANGED outsideService

\* onStartCommand(intent, flags, startId): take the fields of the intent,
\* rebuild the notification, startForeground (stopSelf when it throws),
\* and, unless isServiceRunning, start the location updates (an exception
\* of requestLocationUpdates is swallowed) and the re-pin timer
OnStartCommand(intent, fgOk, regOk) ==
    LET f == IF intent = 0 THEN lts.routeFields ELSE intent
        got == [lts EXCEPT !.routeFields = f, !.notification = f,
                           !.commands = Count(@)]
    IN  /\ lts.alive = "created"
        /\ ~lts.stopping
        /\ lts' = IF ~fgOk
                  THEN [got EXCEPT !.stopping = TRUE]
                  ELSE IF ~lts.isServiceRunning
                  THEN [got EXCEPT !.foreground = TRUE,
                                   !.isServiceRunning = TRUE,
                                   !.locationLive = (regOk \/ @),
                                   !.locationRegs = IF regOk THEN Count(@) ELSE @,
                                   !.repinPending = Count(@),
                                   !.repinChains = Count(@)]
                  ELSE [got EXCEPT !.foreground = TRUE]
        /\ UNCHANGED outsideService

StartCommand ==
    \E intent \in Intents, fgOk \in BOOLEAN, regOk \in BOOLEAN :
        OnStartCommand(intent, fgOk, regOk)

\* notificationRepinRunnable.run(): while isServiceRunning re-pin the
\* notification and post itself again
NotificationRepin ==
    /\ lts.repinPending > 0
    /\ lts' = IF lts.isServiceRunning
              THEN [lts EXCEPT !.foreground = TRUE, !.repins = Count(@)]
              ELSE [lts EXCEPT !.repinPending = @ - 1]
    /\ UNCHANGED outsideService

\* onDestroy: after stopService or stopSelf
OnDestroy ==
    /\ lts.alive = "created"
    /\ lts' = [lts EXCEPT !.alive = "destroyed",
                          !.isServiceRunning = FALSE,
                          !.foreground = FALSE,
                          !.repinPending = 0,
                          !.locationLive = FALSE,
                          !.wakeLockHeld = FALSE]
    /\ UNCHANGED outsideService

\* the service driven by the Android system
ServiceNext ==
    \/ OnCreate
    \/ StartCommand
    \/ NotificationRepin
    \/ OnDestroy

\* what the driver and the timers of the page do
PageNext ==
    \/ HandleStartRoute
    \/ HandleStartRouteResume
    \/ HandleMarkReached
    \/ AutoReset
    \/ RestoreTripState

\* what the stores do with the requests in flight
StoreNext ==
    \/ TripWriteApplied
    \/ RtdbWriteApplied

\* failures and page reloads
FaultNext ==
    \/ RestoreTripStateFail
    \/ Reload
    \/ TripWriteFails
    \/ RtdbWriteFails

\* stale taps and message timers: they touch only message and staleMark
UiNext ==
    \/ StaleMarkReached
    \/ ClearMessage

\* the deployment of the Cloud Functions and their invocations
FunctionsNext ==
    \/ DeployFunctions
    \/ NotifyStudentsRouteStarted
    \/ NotifyStudentsStopReached
    \/ SetNotified

Next ==
    PageNext \/ StoreNext \/ FaultNext \/ UiNext \/ FunctionsNext \/ TrackNext
        \/ ServiceNext

Spec == Init /\ [][Next]_vars

\* the trip state machine, the stores and the faults; message timers and
\* stale taps, which change neither the trip nor any request, are left out
TripNext == PageNext \/ StoreNext \/ FaultNext

TripSpec == Init /\ [][TripNext]_vars

\* the page with its message timers and stale taps, the stores answering
\* every request
UiSpecNext == PageNext \/ StoreNext \/ UiNext

UiSpec == Init /\ [][UiSpecNext]_vars

\* the page while it stays mounted and the stores answer every request
MountedNext == PageNext \/ StoreNext

MountedSpec == Init /\ [][MountedNext]_vars

\* MountedSpec with the progress the runtime gives: the JavaScript event
\* loop runs every timer that is armed and every continuation whose promise
\* has settled, and the stores settle every request; nothing makes the
\* driver tap.
LiveSpec ==
    /\ Init
    /\ [][MountedNext]_vars
    /\ WF_vars(AutoReset)
    /\ WF_vars(HandleStartRouteResume)
    /\ WF_vars(RestoreTripState)
    /\ WF_vars(TripWriteApplied)
    /\ WF_vars(RtdbWriteApplied)

\* one trip driven by the handlers, with writes that fail: the restore of
\* the mount has not resolved and the reset timer has not fired
HandlerNext ==
    \/ HandleStartRoute
    \/ HandleStartRouteResume
    \/ HandleMarkReached
    \/ StoreNext
    \/ TripWriteFails
    \/ RtdbWriteFails

HandlerSpec == Init /\ [][HandlerNext]_vars

\* the mounted page, the stores and the Cloud Functions
NotifyNext == PageNext \/ StoreNext \/ FunctionsNext

NotifySpec == Init /\ [][NotifyNext]_vars

\* the mounted page, the Realtime Database and the Cloud Functions while
\* Firestore does not answer: no trip id is returned and getActiveTrip
\* finds no trip
BroadcastNext == PageNext \/ RtdbWriteApplied \/ FunctionsNext

BroadcastSpec == Init /\ [][BroadcastNext]_vars

\* a caller of the stopTracking the hook returns
CallStopTracking ==
    /\ StopTrackingCall
    /\ UNCHANGED <<app, mounted, shouldTrack, isNative, startVars, held, publishing>>

\* useLocationTracking on either platform, driven by its component
TrackInit == InitPage /\ lts = NoService /\ \E native \in BOOLEAN : InitTracking(native)

TrackSpec == TrackInit /\ [][TrackNext]_vars

\* the hook driven by its component and by direct calls of stopTracking
TrackApiNext == TrackNext \/ CallStopTracking

TrackApiSpec == TrackInit /\ [][TrackApiNext]_vars

\* LocationTrackingService under the start commands and the stops the
\* Android system delivers
ServiceSpec == Init /\ [][ServiceNext]_vars

\* the hook when the location permission is granted and neither the
\* foreground service nor the watch fails to start
TrackGrantedNext ==
    \/ TrackingEffect
    \/ Unmount
    \/ CheckPermissionsResolves(TRUE)
    \/ StartForegroundServiceSettles(TRUE)
    \/ WakeLockAcquired
    \/ WatchLocationResolves(TRUE)
    \/ StopTrackingStep
    \/ PublishNext

\* ... with the progress the runtime gives: every awaited promise of
\* startTracking and stopTracking settles and its continuation runs;
\* nothing makes the route state change or a timer tick
TrackLiveSpec ==
    /\ TrackInit
    /\ [][TrackGrantedNext]_vars
    /\ WF_vars(CheckPermissionsResolves(TRUE))
    /\ WF_vars(StartForegroundServiceSettles(TRUE))
    /\ WF_vars(WakeLockAcquired)
    /\ WF_vars(WatchLocationResolves(TRUE))
    /\ WF_vars(StopTrackingStep)

(* ======================================================================= *)
(*                               Properties                                *)
(* ======================================================================= *)

\* the stop of lowest order
MinOrderIndex(s) == CHOOSE i \in 1..Len(s) : \A j \in 1..Len(s) : s[i].order <= s[j].order

\* position of a status in the progression pending -> current -> reached
Rank(st) == IF st = "pending" THEN 0 ELSE IF st = "current" THEN 1 ELSE 2

\* the requests a step adds at the end of a queue
Appended(q, q2) ==
    IF Len(q2) > Len(q) /\ SubSeq(q2, 1, Len(q)) = q
    THEN SubSeq(q2, Len(q) + 1, Len(q2))
    ELSE <<>>

NoCurrentStop == \A i \in 1..Len(stops) : stops[i].status # "current"
AllPending == \A i \in 1..Len(stops) : stops[i].status = "pending"
AllReached == \A i \in 1..Len(stops) : stops[i].status = "reached"

\* C1: while the route is in progress exactly one stop is 'current', every
\* stop of lower order is 'reached' and every stop of higher order is
\* 'pending'; while it is not in progress no stop is 'current'.
C1_CurrentStopShape ==
    IF routeState = "in_progress"
    THEN \E c \in 1..Len(stops) :
            /\ stops[c].status = "current"
            /\ \A i \in 1..Len(stops) :
                  /\ stops[i].order < stops[c].order => stops[i].status = "reached"
                  /\ stops[i].order > stops[c].order => stops[i].status = "pending"
                  /\ stops[i].status = "current" => i = c
    ELSE NoCurrentStop

\* C2: the step in which handleStartRoute resumes after its await leaves
\* the stop of minimum order 'current', every other stop 'pending' and
\* routeState in_progress, whatever the statuses were before the step.
C2_StartMakesFirstStopCurrent ==
    [][HandleStartRouteResume =>
          /\ Len(stops') >= 1
          /\ routeState' = "in_progress"
          /\ \A i \in 1..Len(stops') :
                stops'[i].status =
                    IF i = MinOrderIndex(stops') THEN "current" ELSE "pending"]_vars

\* C2 witness: a start has just resumed in a trip in which stop 1 had
\* already been written 'reached', so the statuses before it were not all
\* 'pending'.
C2_Witness ==
    /\ marks = 0
    /\ routeState = "in_progress"
    /\ reachedWrites[1] >= 1
    /\ stops[1].status = "current"

\* C3: after a start followed by k markReached calls the first k stops are
\* 'reached'; if k < N stop k+1 is 'current', the rest are 'pending' and the
\* trip is in progress; if k = N the trip is completed, no stop is current
\* and the currentStop written to both stores is null.  The trip is not
\* completed before k = N.
C3_ProgressAfterMarks ==
    /\ marks >= 0 =>
          /\ marks <= Len(stops)
          /\ \A i \in 1..Len(stops) :
                stops[i].status =
                    IF i <= marks THEN "reached"
                    ELSE IF i = marks + 1 THEN "current" ELSE "pending"
          /\ routeState = IF marks < Len(stops) THEN "in_progress" ELSE "completed"
    /\ \A j \in 1..Len(rtQ) :
          rtQ[j].op = "markRtdb" /\ rtQ[j].stop = stops[Len(stops)].id
             => rtQ[j].cur = NoStop
    /\ \A j \in 1..Len(fsQ) :
          fsQ[j].op = "updateTrip" /\ fsQ[j].rs = "completed" => fsQ[j].cur = NoStop

\* C3 witness: the trip has been completed by N marks after its start, and
\* the write of the last mark is still in flight.
C3_Witness ==
    /\ marks = NumStops
    /\ routeState = "completed"
    /\ AllReached
    /\ \E j \in 1..Len(rtQ) : rtQ[j].op = "markRtdb" /\ rtQ[j].stop = NumStops

\* C4: apart from the auto-reset and a page reload, no step moves the status
\* of a stop backward in pending -> current -> reached, and no step changes
\* the order of a stop.
C4_StatusesOnlyMoveForward ==
    [][(/\ reloads' = reloads
        /\ ~(routeState = "completed" /\ routeState' = "not_started"))
       => \A i \in 1..Len(stops) :
             /\ Len(stops') = Len(stops)
             /\ Rank(stops'[i].status) >= Rank(stops[i].status)
             /\ stops'[i].order = stops[i].order]_vars

\* C5: a handleStartRoute invocation that resumes when the route is already
\* in progress, the first invocation having started it, changes nothing: the
\* stops and routeState stay as they are and no second trip id is created.
C5_SecondStartChangesNothing ==
    [][(HandleStartRouteResume /\ routeState = "in_progress")
       => /\ stops' = stops
          /\ routeState' = routeState
          /\ nextTripId' = nextTripId]_vars

\* C6: once the route is in progress, no step issues another
\* routeState = in_progress write to the Realtime Database or another
\* startTrip call: each trip has at most one of either.
C6_OneStartWritePerTrip ==
    [][routeState = "in_progress"
       => /\ \A j \in 1..Len(Appended(rtQ, rtQ')) :
                ~(/\ Appended(rtQ, rtQ')[j].op = "routeState"
                  /\ Appended(rtQ, rtQ')[j].rs = "in_progress")
          /\ \A j \in 1..Len(Appended(fsQ, fsQ')) :
                Appended(fsQ, fsQ')[j].op # "startTrip"]_vars

\* C7: within one trip, status 'reached' is written to buses/{bus}/stops/{id}
\* at most once for each stop.
C7_ReachedWrittenOnce == \A i \in StopIds : reachedWrites[i] <= 1

\* C8: handleMarkReached invoked when no stop is 'current' changes neither
\* stops, routeState, activeTripId nor the message, and issues no request
\* to either store.
C8_MarkWithoutCurrentIsNoOp ==
    [][((HandleMarkReached \/ StaleMarkReached) /\ NoCurrentStop)
       => UNCHANGED <<stops, routeState, activeTripId, message, rtQ, fsQ>>]_vars

\* C8 witness: handleMarkReached has been invoked with no current stop, and
\* the trip is completed with its message still shown.
C8_Witness ==
    /\ staleMark
    /\ NoCurrentStop
    /\ routeState = "completed"
    /\ message = "completed"

\* C9: whenever routeState is completed, the page eventually is back in
\* not_started with every stop 'pending' and no active trip id.
C9_CompletedLeadsToReset ==
    (routeState = "completed")
        ~> (routeState = "not_started" /\ AllPending /\ activeTripId = NoTrip)

\* C10: the Realtime Database never holds routeState.state = in_progress
\* while location/routeId is absent.
C10_RouteIdPresentWhenInProgress ==
    rtdb.routeState = "in_progress" => rtdb.location.routeId

\* C11: handleMarkReached issues exactly one Realtime Database update for
\* the stop, and no full stop-list save; when that update is applied, only
\* status and reachedAt of the reached stop, currentStop and the status of
\* the next stop change: the other stops' entries, every notified flag,
\* meta, routeState and location stay as they were.
C11_MarkReachedWriteFrame ==
    [][/\ (HandleMarkReached /\ ~NoCurrentStop) =>
            LET new == Appended(rtQ, rtQ')
                IsMark(r) == r.op = "markRtdb"
                IsSave(r) == r.op = "saveStops"
            IN  /\ Len(SelectSeq(new, IsMark)) = 1
                /\ Len(SelectSeq(new, IsSave)) = 0
                /\ SelectSeq(new, IsMark)[1].stop = stops[CurrentIndex(stops)].id
       /\ (RtdbWriteApplied /\ Head(rtQ).op = "markRtdb") =>
            LET r == Head(rtQ)
            IN  /\ \A i \in StopIds :
                      /\ rtdb'.stops[i].notified = rtdb.stops[i].notified
                      /\ (i # r.stop /\ i # r.cur) => rtdb'.stops[i] = rtdb.stops[i]
                      /\ (i = r.cur) => rtdb'.stops[i].reachedAt = rtdb.stops[i].reachedAt
                /\ rtdb'.stops[r.stop].status = "reached"
                /\ rtdb'.currentStop = r.cur
                /\ rtdb'.routeState = rtdb.routeState
                /\ rtdb'.location = rtdb.location
                /\ rtdb'.meta = rtdb.meta]_vars

\* C11 witness: after a start and a mark for every stop, the update of the
\* last mark has been applied while the first stop carried its notified
\* flag and the 'completed' write was still in flight.
C11_Witness ==
    /\ marks = NumStops
    /\ rtdb.stops[NumStops].status = "reached"
    /\ rtdb.stops[1].notified
    /\ rtdb.routeState = "in_progress"
    /\ \E j \in 1..Len(rtQ) : rtQ[j].op = "routeState" /\ rtQ[j].rs = "completed"

\* C12: after a start followed by at least one markReached, once every
\* Firestore write has been applied and no start invocation is suspended,
\* the document of the trip shows every locally reached stop as 'reached'
\* with its arrival time, the locally current stop as 'current', and its
\* currentStop is the locally current stop (null after the last stop).
C12_TripDocMirrorsMark ==
    (/\ marks >= 1
     /\ fsQ = <<>>
     /\ startCalls = <<>>)
    => LET d == trips[nextTripId - 1]
       IN  /\ d.status # "absent"
           /\ \A i \in 1..Len(stops) :
                 /\ stops[i].status = "reached"
                       => (d.stops[stops[i].id].status = "reached"
                           /\ d.stops[stops[i].id].reachedAt)
                 /\ stops[i].status = "current"
                       => d.stops[stops[i].id].status = "current"
           /\ d.currentStop = CurrentId(stops)

\* C13: the handleMarkReached step that makes the local trip completed
\* issues routeState = completed to the Realtime Database and finishTrip to
\* Firestore.
C13_CompletionWrittenToBothStores ==
    [][(HandleMarkReached /\ routeState # "completed" /\ routeState' = "completed")
       => /\ \E j \in 1..Len(Appended(rtQ, rtQ')) :
                /\ Appended(rtQ, rtQ')[j].op = "routeState"
                /\ Appended(rtQ, rtQ')[j].rs = "completed"
          /\ \E j \in 1..Len(Appended(fsQ, fsQ')) :
                Appended(fsQ, fsQ')[j].op = "finishTrip"]_vars

C15_ConnectionErrorOnlyAfterThreeFailures ==
    /\ [](error = "connection" => consecutiveErrorsRef >= 3)
    /\ [][PublishFails =>
            (error' = "connection" <=> consecutiveErrorsRef' >= 3)]_vars
    /\ [][PublishSucceeds =>
            (consecutiveErrorsRef' = 0 /\ error' # "connection")]_vars

\* C15 as stated: the connection error is on display exactly when at least
\* three publishes have failed since the last successful one.
C15_ConnectionErrorExactlyWhenThreeFailures ==
    (error = "connection") <=> (consecutiveErrorsRef >= 3)

\* the third consecutive failure has just put the error on display while
\* the interval is still publishing
C15_Witness ==
    /\ error = "connection"
    /\ consecutiveErrorsRef = 3
    /\ intervalIdRef
    /\ isTrackingRef

\* C16: within one trip notifyStudentsRouteStarted sends at most one batch
\* and notifyStudentsStopReached sends at most one batch per stop, whatever
\* the driver application writes and however the invocations interleave.
C16_OneBatchPerTripAndStop ==
    /\ startBatches <= 1
    /\ \A i \in StopIds : stopBatches[i] <= 1

\* C17: a notified flag that is set (meta/routeStartNotified or
\* stops/{id}/notified) is removed only by notifyStudentsRouteStarted's
\* cleanup for routeState 'completed'; no write of the driver application
\* removes it.
C17_FlagsRemovedOnlyByCleanup ==
    [][(\/ rtdb.meta.routeStartNotified /\ ~rtdb'.meta.routeStartNotified
        \/ \E i \in StopIds : rtdb.stops[i].notified /\ ~rtdb'.stops[i].notified)
       => (/\ rtQ' = rtQ
           /\ \E k \in 1..Len(fnQ) :
                /\ fnQ[k].fn = "notifyStudentsRouteStarted"
                /\ fnQ[k].after = "completed"
                /\ fnQ' = RemoveAt(fnQ, k))]_vars

\* C18: once the Realtime Database holds routeState 'completed' and every
\* function invocation triggered so far has finished, neither
\* meta/routeStartNotified nor any stops/{id}/notified is set.
C18_NoFlagLeftAfterCompletion ==
    (rtdb.routeState = "completed" /\ fnQ = <<>>)
        => /\ ~rtdb.meta.routeStartNotified
           /\ \A i \in StopIds : ~rtdb.stops[i].notified

\* C19: whenever the route is not in progress or the component is
\* unmounted, and neither startTracking nor stopTracking is running, the
\* hook holds no positioning watch, no publish interval, no foreground
\* service and no wake lock.
C19_NothingHeldWhenNotTracking ==
    ((~shouldTrack \/ ~mounted) /\ startPc = "idle" /\ stopPc = "idle")
        => (~watching /\ ~intervalIdRef /\ ~service /\ ~wakeLock)

\* C20: stopTracking is idempotent.  A call that finds tracking started
\* leaves no watch and no interval, and isTracking false when it has run to
\* its end; a call made while another stopTracking is in flight, after one
\* has finished, or before tracking was ever started changes nothing.
C20_StopTrackingIdempotent ==
    /\ [][(~isStoppingRef /\ isStoppingRef' /\ startPc = "idle")
            => (~watchIdRef' /\ ~watching' /\ ~intervalIdRef')]_vars
    /\ [][(isStoppingRef /\ ~isStoppingRef') => ~isTracking']_vars
    /\ [][(CallStopTracking /\ (isStoppingRef \/ ~isTrackingRef))
            => UNCHANGED tracking]_vars

\* C21: at most one trip document of the bus has status 'in_progress' at
\* any time.
C21_OneTripInProgress ==
    \A t, u \in TripIds :
        (trips[t].status = "in_progress" /\ trips[u].status = "in_progress")
            => t = u

\* C22: after a transition, once every Realtime Database write issued so
\* far is applied and no handleStartRoute is suspended, the database holds
\* the local state: currentStop names the local current stop (no stop when
\* there is none), every stops/{id}/status is the local status, and
\* routeState is the local routeState.
C22_BroadcastStoreMirrorsLocalState ==
    (tripNo >= 1 /\ rtQ = <<>> /\ startCalls = <<>>)
        => /\ rtdb.currentStop = CurrentId(stops)
           /\ \A i \in 1..Len(stops) : rtdb.stops[stops[i].id].status = stops[i].status
           /\ rtdb.routeState = routeState

\* C23: a location write is issued only by a tick of the publish interval,
\* never in the step that receives a sample, and it publishes the sample
\* lastLocationRef holds; a tick publishes only while the hook is mounted
\* and tracking for a route in progress, so none is issued once the route
\* has left in_progress and stopTracking has run; and no location write
\* goes to Firestore.
C23_LocationWritesOnlyFromActiveTick ==
    /\ [][publishes' > publishes
            => (/\ intervalIdRef
                /\ lastLocationRef # "none"
                /\ lastLocationRef' = lastLocationRef)]_vars
    /\ [][publishes' > publishes
            => (mounted /\ shouldTrack /\ isTrackingRef)]_vars
    /\ [][publishes' # publishes => fsQ' = fsQ]_vars

\* C24: when getActiveTrip resolves after the driver has started a route in
\* this mount, the restore leaves the local stops and routeState as they
\* are and does not replace a trip id the page already holds; what it
\* then publishes to the Realtime Database is the state it has set, so it
\* publishes no older state either.
C24_LateRestoreChangesNothing ==
    [][(restorePc = "pending" /\ restorePc' = "done" /\ routeState # "not_started")
        => (/\ stops' = stops
            /\ routeState' = routeState
            /\ (activeTripId # NoTrip => activeTripId' = activeTripId)
            /\ \A k \in (Len(rtQ) + 1)..Len(rtQ') :
                    rtQ'[k].op = "saveStops" => rtQ'[k].sts = Statuses(stops))]_vars

\* C25: every Firestore write handleMarkReached issues (markStopReached,
\* updateTripRouteState, finishTrip) targets the trip document of the most
\* recent start, and a startTrip response sets activeTripId to no trip
\* other than that one.
C25_TripWritesTargetLatestTrip ==
    /\ [][HandleMarkReached
            => \A k \in (Len(fsQ) + 1)..Len(fsQ') : fsQ'[k].trip = nextTripId - 1]_vars
    /\ [][(TripWriteApplied /\ activeTripId' # activeTripId)
            => activeTripId' = nextTripId - 1]_vars

\* C26: a tick publishes only a sample received since the tracking session
\* now running began, never one remembered from an earlier session.
C26_NoSampleFromEarlierSession ==
    [][publishes' > publishes => lastLocationRef = "new"]_vars

\* C27: if from some point on the route stays in progress and the hook
\* stays mounted, then from some point on tracking is active: isTracking
\* is true and a positioning watch is registered.
C27_InProgressLeadsToTracking ==
    <>[](shouldTrack /\ mounted) => <>[](isTracking /\ watchIdRef)

\* C28: at most one positioning watch and one publish interval exist: the
\* step of startTracking that registers a watch finds no watch live, and
\* when it arms the interval (on the web) it finds no interval armed, so it
\* overwrites no handle of a live resource.
C28_OneWatchOneInterval ==
    [][(startPc = "watchLocation" /\ startPc' = "idle")
        => (/\ watchIdRef' => (~watching /\ ~watchIdRef)
            /\ ~isNative => ~intervalIdRef)]_vars

\* C29: once every Realtime Database write issued so far is applied, the
\* status under stopsByName/{safeName} of each stop equals the status under
\* stops/{stopId}.
C29_StopsByNameAgreesWithStops ==
    (tripNo >= 1 /\ rtQ = <<>>)
        => \A i \in StopIds : rtdb.stopsByName[i] = rtdb.stops[i].status

====
